---------------------------- MODULE Spec2Model ----------------------------
(***************************************************************************)
(* Model of ImageSauce's image lifecycle controller                        *)
(* (src/ImageSauce/image_customizer.py): one ImageCustomizer job run       *)
(* through customize_image_entry_point or directly through                 *)
(* ImageCustomizer(...).main(), over a small host filesystem, one mount    *)
(* point and the root filesystem of the image being customized.            *)
(***************************************************************************)
EXTENDS Integers, Sequences, FiniteSets, TLC

VARIABLES
    pc,                   \* position of the run in the code
    viaCli,               \* TRUE: run through customize_image_entry_point
    input_image_file,     \* self.input_image_file
    output_image_path,    \* self.output_image_path
    overwrite,            \* self.overwrite
    modified_image_file,  \* self.modified_image_file
    output_files_name,    \* self.output_files_name
    input_image_type,     \* self.input_image_type
    resolv_conf_existed,  \* self.resolv_conf_existed
    fs,                   \* host files: path -> entry
    dirs,                 \* host directories that exist
    cfgExists,            \* the chimg config file exists
    art,                  \* manifest artifacts: path -> state
    mounts,               \* number of loop mounts active on the mount point
    offset,               \* local variable offset of setup()
    rootfs,               \* filesystem inside the working image
    rootfs0,              \* rootfs as found when the image was mounted
    pending,              \* exception caught by main's except clause
    err,                  \* error that reached the caller ("none": none)
    cause,                \* __cause__ / __context__ of err
    steps,                \* lifecycle operations invoked and what they met
    fs0,                  \* fs at the start of the run
    dirs0,                \* dirs at the start of the run
    art0,                 \* art at the start of the run
    cm,                   \* create_manifest called on its own: arguments, calls
    disk                  \* partition table fdisk reported for the working image

vars == << pc, viaCli, input_image_file, output_image_path, overwrite,
           modified_image_file, output_files_name, input_image_type,
           resolv_conf_existed, fs, dirs, cfgExists, art, mounts, offset,
           rootfs, rootfs0, pending, err, cause, steps, fs0, dirs0, art0,
           cm, disk >>

jobVars == << viaCli, input_image_file, output_image_path, overwrite,
              cfgExists, fs0, dirs0, art0, cm >>

-----------------------------------------------------------------------------
(* Paths.  A path is its directory, its stem and its suffix.               *)

Dirnames == {"", "d"}
Stems == {"a", "b"}
Exts == {"img", "modifying"}

FsPaths == [dir : Dirnames, stem : Stems, ext : Exts]

NoPath == [dir |-> "", stem |-> "", ext |-> ""]

\* pathlib.Path.with_suffix: same directory and stem, the suffix replaced
with_suffix(p, e) == [dir |-> p.dir, stem |-> p.stem, ext |-> e]

\* os.path.dirname
dirname(p) == p.dir

\* the target mount point directory
MountPoint == "mnt"

\* a pathlib.Path object is always truthy
PathTruthy(p) == TRUE

-----------------------------------------------------------------------------
(* Host file entries.                                                      *)

Absent == [kind |-> "absent", fmt |-> "", data |-> ""]
Dir == [kind |-> "dir", fmt |-> "", data |-> ""]
File(f, d) == [kind |-> "file", fmt |-> f, data |-> d]

Formats == {"raw", "qcow2"}

\* os.path.exists
path_exists(f, p) == f[p].kind # "absent"

\* os.path.isfile
path_isfile(f, p) == f[p].kind = "file"

\* os.remove succeeds on a regular file the host lets go of
can_remove(f, p, hostOk) == f[p].kind = "file" /\ hostOk

\* the output of `file`: "QCOW" in file_info
is_qcow(e) == e.fmt = "qcow2"

\* qemu-img convert -O toFmt: same payload, the other container format
qemu_convert(e, toFmt) == File(toFmt, e.data)

\* shutil.copy: the destination is a verbatim copy
shutil_copy(e) == File(e.fmt, e.data)

-----------------------------------------------------------------------------
(* Manifest artifacts derived from a base output path.                     *)

ArtExts == {"manifest", "filelist", "sbom.spdx", "sbom.log"}

manifest_file(B) == [base |-> B, ext |-> "manifest"]
filelist_file(B) == [base |-> B, ext |-> "filelist"]
sbom_file_name(B) == [base |-> B, ext |-> "sbom.spdx"]


sbom_log_default(B) == [base |-> B, ext |-> "sbom.log"]

\* str(None): the path the SBOM log is opened at when sbom_log is None
StrNone == [base |-> NoPath, ext |-> "None"]

\* str(""): the empty string, the only falsy str
EmptyStr == [base |-> NoPath, ext |-> ""]

\* str(sbom_log); sbom_log is <<>> for None and <<p>> for a given p
py_str(sbom_log) == IF sbom_log = <<>> THEN StrNone ELSE sbom_log[1]

\* sbom_log = str(sbom_log) or f"{base_output_path}.sbom.log"
sbom_log_path(B, sbom_log) ==
    IF py_str(sbom_log) = EmptyStr THEN sbom_log_default(B) ELSE py_str(sbom_log)

ArtPaths == [base : {with_suffix(p, "") : p \in FsPaths}, ext : ArtExts]
                \cup {StrNone}

-----------------------------------------------------------------------------
(* etc/resolv.conf and etc/resolv.conf.bak inside the mounted root.        *)

(* An entry is "none", one of the image's own entries ("file", a symlink    *)
(* whose target resolves: "symlink", a symlink whose target does not:      *)
(* "dangling"), the copy of the host's /etc/resolv.conf ("host"), or an    *)
(* unrelated older backup file ("stale").                                  *)

ResolvKinds == {"none", "file", "symlink", "dangling"}
BakKinds == {"none", "stale"}

\* os.path.lexists: true for any entry, dangling symlinks included
lexists(e) == e # "none"

\* os.path.exists: follows symlinks, false for a dangling symlink
exists_follow(e) == e \notin {"none", "dangling"}

NoRoot == [resolv |-> "none", bak |-> "none", custom |-> "no"]

-----------------------------------------------------------------------------
(* The state before the run: the job's arguments and the host.             *)

InputNames == {[stem |-> "a", ext |-> e] : e \in Exts}
OutputNames == InputNames \cup {[stem |-> "b", ext |-> "img"]}
InputEntries == {Absent, Dir} \cup {File(f, "orig") : f \in Formats}

At(d, n) == [dir |-> d, stem |-> n.stem, ext |-> n.ext]

InitFs(inp, e, stale) ==
    [p \in FsPaths |-> IF p = inp THEN e
                       ELSE IF p \in stale THEN File("raw", "stale")
                       ELSE Absent]

\* create_manifest not called on its own
NoCall == [base |-> NoPath, generate_sbom |-> FALSE, sbom_log |-> <<>>,
           overwrite |-> FALSE, calls |-> 0, clean |-> TRUE, out |-> "none",
           prev |-> <<>>]

\* no partition table read yet
NoDisk == [sector_size |-> <<>>, parts |-> <<>>]

InitArt(B, old) ==
    [a \in ArtPaths |-> IF a.base = B /\ a.ext \in old THEN "old" ELSE "absent"]

Init ==
    /\ viaCli \in BOOLEAN
    /\ pc = IF viaCli THEN "entry" ELSE "init"
    /\ overwrite \in BOOLEAN
    /\ cfgExists \in BOOLEAN
    /\ \E d \in Dirnames, i \in InputNames, o \in OutputNames :
          /\ input_image_file = At(d, i)
          /\ output_image_path = At(d, o)
    /\ \E e \in InputEntries :
       \E stale \in SUBSET ({output_image_path,
                             with_suffix(input_image_file, "modifying")}
                            \ {input_image_file}) :
          fs = InitFs(input_image_file, e, stale)
    /\ dirs \in SUBSET {"d", MountPoint}
    /\ (\E p \in FsPaths : p.dir = "d" /\ path_exists(fs, p)) => "d" \in dirs
    /\ \E old \in SUBSET {"manifest", "filelist", "sbom.spdx"} :
          art = InitArt(with_suffix(output_image_path, ""), old)
    /\ modified_image_file = NoPath
    /\ output_files_name = NoPath
    /\ input_image_type = ""
    /\ resolv_conf_existed = FALSE
    /\ mounts = 0
    /\ offset = 0
    /\ rootfs = NoRoot
    /\ rootfs0 = NoRoot
    /\ pending = "none"
    /\ err = "none"
    /\ cause = "none"
    /\ steps = {}
    /\ fs0 = fs
    /\ dirs0 = dirs
    /\ art0 = art
    /\ cm = NoCall
    /\ disk = NoDisk

objVars == << modified_image_file, output_files_name, input_image_type,
              resolv_conf_existed >>
hostVars == << fs, dirs, art >>
offVars == << offset, disk >>
imgVars == << mounts, offVars, rootfs, rootfs0 >>

\* an exception (or SystemExit) leaves main() and reaches the caller
Raise(e) ==
    /\ pc' = "failed"
    /\ err' = e
    /\ cause' = "none"
    /\ pending' = pending

\* the run goes on to the next position
Goto(l) ==
    /\ pc' = l
    /\ UNCHANGED << err, cause, pending >>

-----------------------------------------------------------------------------
(* customize_image_entry_point and the constructor.                        *)

customize_image_entry_point ==
    /\ pc = "entry"
    /\ IF ~cfgExists
         THEN Raise("SystemExit")
         ELSE IF ~path_exists(fs, input_image_file)
                 THEN Raise("SystemExit")
                 ELSE Goto("init")
    /\ UNCHANGED << jobVars, objVars, hostVars, imgVars, steps >>

output_collision_unchecked(f) == FALSE

\* the constructor's check of the output path
output_collision(f) == path_exists(f, output_image_path) /\ ~overwrite

ImageCustomizer_init ==
    /\ pc = "init"
    /\ modified_image_file' = with_suffix(input_image_file, "modifying")
    /\ output_files_name' = with_suffix(output_image_path, "")
    /\ input_image_type' = ""
    /\ resolv_conf_existed' = FALSE
    /\ IF output_collision(fs)
         THEN Raise("FileExistsError")
         ELSE Goto("ensure_paths")
    /\ steps' = steps \cup {"init"}
    /\ UNCHANGED << jobVars, hostVars, imgVars >>

-----------------------------------------------------------------------------
(* setup().                                                                *)

ensure_paths ==
    /\ pc = "ensure_paths"
    /\ dirs' = dirs \cup (IF dirname(input_image_file) # ""
                             THEN {dirname(modified_image_file)} ELSE {})
                    \cup {MountPoint}
    /\ Goto("remove_existing")
    /\ UNCHANGED << jobVars, objVars, fs, art, imgVars, steps >>

\* _remove_existing_modified_image on f: the new files, or f when os.remove raises
remove_existing_modified_image(f, hostOk) ==
    IF path_exists(f, modified_image_file) /\ can_remove(f, modified_image_file, hostOk)
    THEN [f EXCEPT ![modified_image_file] = Absent]
    ELSE f

\* os.remove inside _remove_existing_modified_image raises
remove_existing_raises(f, hostOk) ==
    path_exists(f, modified_image_file) /\ ~can_remove(f, modified_image_file, hostOk)

setup_remove_existing ==
    /\ pc = "remove_existing"
    /\ \E hostOk \in BOOLEAN :
          /\ fs' = remove_existing_modified_image(fs, hostOk)
          /\ IF remove_existing_raises(fs, hostOk)
               THEN Raise("OSError")
               ELSE Goto("validate")
    /\ UNCHANGED << jobVars, objVars, dirs, art, imgVars, steps >>

validate_input_image_exists ==
    /\ pc = "validate"
    /\ IF ~path_isfile(fs, input_image_file)
         THEN Raise("FileNotFoundError")
         ELSE Goto("convert")
    /\ UNCHANGED << jobVars, objVars, hostVars, imgVars, steps >>

convert_or_copy_image ==
    /\ pc = "convert"
    /\ \E toolOk \in BOOLEAN :
          IF is_qcow(fs[input_image_file])
          THEN IF toolOk
               THEN /\ fs' = [fs EXCEPT ![modified_image_file] =
                                  qemu_convert(fs[input_image_file], "raw")]
                    /\ input_image_type' = "qcow2"
                    /\ Goto("offset")
               ELSE /\ Raise("CalledProcessError")
                    /\ UNCHANGED << fs, input_image_type >>
          ELSE IF toolOk
               THEN /\ fs' = [fs EXCEPT ![modified_image_file] =
                                  shutil_copy(fs[input_image_file])]
                    /\ input_image_type' = "raw"
                    /\ Goto("offset")
               ELSE /\ Raise("OSError")
                    /\ UNCHANGED << fs, input_image_type >>
    /\ steps' = steps \cup {"stage"}
    /\ UNCHANGED << jobVars, modified_image_file, output_files_name,
                    resolv_conf_existed, dirs, art, imgVars >>

(* fdisk -l on the working image.  The partition table of the image is a   *)
(* record: the logical sector size (<<>> when fdisk prints no sector-size   *)
(* line) and the partition entries in the order fdisk lists them.  fdisk_l  *)
(* is the text fdisk prints for it, a sequence of characters.               *)

MaxParts == 2
PartTypes == {"Linux filesystem", "EFI System"}
StartChoices == {2048, 227328}
SectorSizeChoices == {512, 4096}

PartEntries == [start : StartChoices, type : PartTypes]

Disks(n) ==
    [sector_size : {<<>>} \cup {<< z >> : z \in SectorSizeChoices},
     parts : UNION {[1..k -> PartEntries] : k \in 0..n}]

\* the tables the full run draws from: with or without a sector-size line,
\* with or without a Linux filesystem partition
MainDisks ==
    [sector_size : {<<>>, << 512 >>},
     parts : {<<>>, << [start |-> 2048, type |-> "Linux filesystem"] >>}]

Digits == << "0", "1", "2", "3", "4", "5", "6", "7", "8", "9" >>

RECURSIVE decimal(_)
decimal(n) ==
    IF n < 10 THEN << Digits[n + 1] >>
    ELSE Append(decimal(n \div 10), Digits[(n % 10) + 1])

LinuxFilesystem ==
    << "L", "i", "n", "u", "x", " ", "f", "i", "l", "e", "s", "y", "s", "t",
       "e", "m" >>

EfiSystem ==
    << "E", "F", "I", " ", "S", "y", "s", "t", "e", "m" >>

SectorSize ==
    << "S", "e", "c", "t", "o", "r", " ", "s", "i", "z", "e" >>

TypeText(t) == IF t = "Linux filesystem" THEN LinuxFilesystem ELSE EfiSystem

DiskLine ==
    << "D", "i", "s", "k", " ", "i", "m", "g", ":", " ", "1", " ", "G", "i",
       "B" >>

UnitsLine(z) ==
    << "U", "n", "i", "t", "s", ":", " ", "s", "e", "c", "t", "o", "r", "s",
       " ", "o", "f", " ", "1", " ", "*", " " >>
    \o decimal(z) \o << " ", "=", " " >> \o decimal(z)
    \o << " ", "b", "y", "t", "e", "s" >>

SectorSizeLine(z) ==
    SectorSize
    \o
    << " ", "(", "l", "o", "g", "i", "c", "a", "l", "/", "p", "h", "y", "s",
       "i", "c", "a", "l", ")", ":", " " >>
    \o decimal(z) \o << " ", "b", "y", "t", "e", "s", " ", "/", " " >>
    \o decimal(z) \o << " ", "b", "y", "t", "e", "s" >>

DeviceHeader ==
    << "D", "e", "v", "i", "c", "e", " ", "S", "t", "a", "r", "t", " ", "E",
       "n", "d", " ", "S", "e", "c", "t", "o", "r", "s", " ", "S", "i", "z",
       "e", " ", "T", "y", "p", "e" >>

\* one row of the partition listing: device, start, end, sectors, size, type
PartitionLine(i, p) ==
    << "i", "m", "g" >> \o decimal(i) \o << " ", " " >>
    \o decimal(p.start) \o << " " >> \o decimal(p.start + 2047)
    \o << " " >> \o decimal(2048) \o << " ", " ", "1", "M", " " >>
    \o TypeText(p.type)

RECURSIVE PartitionLines(_, _)
PartitionLines(parts, i) ==
    IF i > Len(parts) THEN <<>>
    ELSE PartitionLine(i, parts[i]) \o << "\n" >> \o PartitionLines(parts, i + 1)

fdisk_l(d) ==
    DiskLine \o << "\n" >>
    \o (IF d.sector_size = <<>> THEN <<>>
        ELSE UnitsLine(d.sector_size[1]) \o << "\n" >>
             \o SectorSizeLine(d.sector_size[1]) \o << "\n" >>)
    \o (IF d.parts = <<>> THEN <<>>
        ELSE << "\n" >> \o DeviceHeader \o << "\n" >>
             \o PartitionLines(d.parts, 1))

Min(S) == CHOOSE x \in S : \A y \in S : x <= y
Max(S) == CHOOSE x \in S : \A y \in S : y <= x

\* str.splitlines()
RECURSIVE splitlines(_)
splitlines(s) ==
    IF s = <<>> THEN <<>>
    ELSE LET nl == {i \in 1..Len(s) : s[i] = "\n"}
         IN  IF nl = {} THEN << s >>
             ELSE << SubSeq(s, 1, Min(nl) - 1) >>
                  \o splitlines(SubSeq(s, Min(nl) + 1, Len(s)))

Whitespace == {" ", "\t", "\n"}

\* str.split() with no argument: runs of whitespace separate the words
RECURSIVE split(_)
split(s) ==
    LET word == {i \in 1..Len(s) : s[i] \notin Whitespace}
    IN  IF word = {} THEN <<>>
        ELSE LET a == Min(word)
                 gap == {i \in a..Len(s) : s[i] \in Whitespace}
                 b == IF gap = {} THEN Len(s) + 1 ELSE Min(gap)
             IN  << SubSeq(s, a, b - 1) >> \o split(SubSeq(s, b, Len(s)))

\* pat in line
contains(pat, line) ==
    \E i \in 1..(Len(line) - Len(pat) + 1) :
        SubSeq(line, i, i + Len(pat) - 1) = pat

last_match(lines, pat) ==
    LET hits == {i \in 1..Len(lines) : contains(pat, lines[i])}
    IN  IF hits = {} THEN <<>> ELSE << lines[Max(hits)] >>

\* next((line for line in lines if pat in line), None); <<>> is None
first_match(lines, pat) ==
    LET hits == {i \in 1..Len(lines) : contains(pat, lines[i])}
    IN  IF hits = {} THEN <<>> ELSE << lines[Min(hits)] >>

is_decimal(w) ==
    w # <<>> /\ \A i \in 1..Len(w) : \E k \in 1..10 : Digits[k] = w[i]

\* int(w) for a word of decimal digits
RECURSIVE int(_)
int(w) ==
    IF w = <<>> THEN 0
    ELSE int(SubSeq(w, 1, Len(w) - 1)) * 10
         + ((CHOOSE k \in 1..10 : Digits[k] = w[Len(w)]) - 1)

\* if not start_sector or not sector_size
offset_known(start_sector, sector_size) ==
    ~(start_sector = <<>> \/ sector_size = <<>>)

partition_offset(start_sector, sector_size) ==
    int(start_sector[1]) * int(sector_size[1])

\* the body of _get_partition_offset on the text fdisk printed
parse_partition_offset(fdisk_output) ==
    LET lines == splitlines(fdisk_output)
        part_line == first_match(lines, LinuxFilesystem)
        part_words == IF part_line = <<>> THEN <<>> ELSE split(part_line[1])
        sector_size_line == first_match(lines, SectorSize)
        size_words == IF sector_size_line = <<>> THEN <<>>
                      ELSE split(sector_size_line[1])
    IN  IF (part_line # <<>> /\ Len(part_words) < 2)
           \/ (sector_size_line # <<>> /\ Len(size_words) < 4)
        THEN [out |-> "IndexError", offset |-> 0]
        ELSE LET start_sector == IF part_line = <<>> THEN <<>>
                                 ELSE << part_words[2] >>
                 sector_size == IF sector_size_line = <<>> THEN <<>>
                                ELSE << size_words[4] >>
             IN  IF ~offset_known(start_sector, sector_size)
                 THEN [out |-> "OffsetError", offset |-> 0]
                 ELSE IF ~(is_decimal(start_sector[1])
                           /\ is_decimal(sector_size[1]))
                 THEN [out |-> "ValueError", offset |-> 0]
                 ELSE [out |-> "ok",
                       offset |-> partition_offset(start_sector, sector_size)]

\* _get_partition_offset when the image holds one of the tables in D
get_partition_offset_on(D) ==
    /\ pc = "offset"
    /\ \E d \in D :
          LET r == parse_partition_offset(fdisk_l(d))
          IN  /\ disk' = d
              /\ IF r.out = "ok"
                 THEN /\ offset' = r.offset
                      /\ Goto("mount")
                 ELSE /\ offset' = offset
                      /\ Raise(r.out)
    /\ steps' = steps \cup {"offset"}
    /\ UNCHANGED << jobVars, objVars, hostVars, mounts, rootfs, rootfs0 >>

get_partition_offset == get_partition_offset_on(MainDisks)

mount_failed_ignored(returncode) == FALSE

\* if result.returncode != 0
mount_failed(returncode) == returncode # 0

\* sudo mount -o loop,offset=...: the exit status and, once mounted, what the
\* image holds
mount_image ==
    /\ pc = "mount"
    /\ \E returncode \in {0, 32} :
          /\ steps' = steps \cup {"mount"}
                  \cup (IF returncode # 0 THEN {"mount_nonzero"} ELSE {})
          /\ IF returncode = 0
               THEN /\ mounts' = mounts + 1
                    /\ \E r \in ResolvKinds, b \in BakKinds :
                          rootfs' = [resolv |-> r, bak |-> b, custom |-> "no"]
                    /\ rootfs0' = rootfs'
               ELSE UNCHANGED << mounts, rootfs, rootfs0 >>
          /\ IF mount_failed(returncode)
               THEN Raise("MountError")
               ELSE Goto("resolv")
    /\ UNCHANGED << jobVars, objVars, hostVars, offVars >>

\* _handle_resolv_conf on the mounted root; bkOk, rmOk, cpOk: whether
\* cp -a, rm -f and cp of the host's file exit with status 0
handle_resolv_conf_root(r, bkOk, rmOk, cpOk) ==
    LET had == lexists(r.resolv)
        bak1 == IF had /\ bkOk THEN r.resolv ELSE r.bak
        rmFails == had /\ ~rmOk
        resolv1 == IF had /\ rmOk THEN "none" ELSE r.resolv
        resolv2 == IF ~rmFails /\ cpOk THEN "host" ELSE resolv1
    IN  [root |-> [r EXCEPT !.resolv = resolv2, !.bak = bak1],
         existed |-> IF had THEN bkOk ELSE resolv_conf_existed,
         raises |-> rmFails \/ ~cpOk]

handle_resolv_conf ==
    /\ pc = "resolv"
    /\ \E bkOk \in BOOLEAN, rmOk \in BOOLEAN, cpOk \in BOOLEAN :
          LET h == handle_resolv_conf_root(rootfs, bkOk, rmOk, cpOk)
          IN  /\ rootfs' = h.root
              /\ resolv_conf_existed' = h.existed
              /\ IF h.raises THEN Raise("CalledProcessError")
                             ELSE Goto("chrootfs")
    /\ steps' = steps \cup {"shim"}
    /\ UNCHANGED << jobVars, modified_image_file, output_files_name,
                    input_image_type, hostVars, mounts, offVars, rootfs0 >>

-----------------------------------------------------------------------------
(* main(): do_chrootfs inside the try block.                               *)

\* an exception raised inside main's try block
Caught(e) ==
    /\ pc' = "except"
    /\ pending' = e
    /\ UNCHANGED << err, cause >>

do_chrootfs ==
    /\ pc = "chrootfs"
    /\ IF ~cfgExists
         THEN /\ Raise("SystemExit")
              /\ steps' = steps \cup {"chrootfs"}
              /\ rootfs' = rootfs
         ELSE IF MountPoint \notin dirs
         THEN /\ Raise("SystemExit")
              /\ steps' = steps \cup {"chrootfs"}
              /\ rootfs' = rootfs
         ELSE /\ steps' = steps \cup {"chrootfs", "delegate"}
              /\ \E applyOk \in BOOLEAN :
                    IF ~applyOk
                    THEN /\ rootfs' = [rootfs EXCEPT !.custom = "partial"]
                         /\ Caught("DelegateError")
                    ELSE /\ rootfs' = [rootfs EXCEPT !.custom = "yes"]
                         /\ IF (FALSE \/ overwrite) /\ ~PathTruthy(output_files_name)
                              THEN Raise("SystemExit")
                              ELSE IF PathTruthy(output_files_name)
                                   THEN Goto("manifest")
                                   ELSE Goto("restore")
    /\ UNCHANGED << jobVars, objVars, hostVars, mounts, offVars, rootfs0 >>

-----------------------------------------------------------------------------
(* create_manifest.  bad: the artifact os.remove refuses to remove ("none": *)
(* none); broken: the external step that fails ("none": none).             *)

GenSteps == {"none", "dpkg", "snap", "find", "sort", "install", "sbom"}

manifest_precheck_strict(a, files, ow, bad) ==
    IF \E i \in 1..Len(files) : a[files[i]] # "absent"
    THEN [art |-> a, out |-> "SystemExit"]
    ELSE [art |-> a, out |-> "ok"]

\* the loop over [manifest_file, filelist_file, sbom_file_name]
RECURSIVE manifest_precheck(_, _, _, _)
manifest_precheck(a, files, ow, bad) ==
    IF files = <<>> THEN [art |-> a, out |-> "ok"]
    ELSE LET file == Head(files)
         IN  IF a[file] # "absent" /\ ~ow
             THEN [art |-> a, out |-> "SystemExit"]
             ELSE IF a[file] # "absent" /\ ow
             THEN IF file.ext = bad
                  THEN [art |-> a, out |-> "OSError"]
                  ELSE manifest_precheck([a EXCEPT ![file] = "absent"],
                                         Tail(files), ow, bad)
             ELSE manifest_precheck(a, Tail(files), ow, bad)

\* the manifest: dpkg-query into the file opened "w", then snap_seed_parse
gen_manifest(a, B, broken) ==
    IF broken = "dpkg"
    THEN [art |-> [a EXCEPT ![manifest_file(B)] = "partial"],
          out |-> "CalledProcessError"]
    ELSE IF broken = "snap"
    THEN [art |-> [a EXCEPT ![manifest_file(B)] = "packages"],
          out |-> "SnapSeedError"]
    ELSE [art |-> [a EXCEPT ![manifest_file(B)] = "new"], out |-> "ok"]

\* the file list: find -xdev into the file opened "w", then sort -o
gen_filelist(a, B, broken) ==
    IF broken = "find"
    THEN [art |-> [a EXCEPT ![filelist_file(B)] = "partial"],
          out |-> "CalledProcessError"]
    ELSE IF broken = "sort"
    THEN [art |-> [a EXCEPT ![filelist_file(B)] = "unsorted"],
          out |-> "CalledProcessError"]
    ELSE [art |-> [a EXCEPT ![filelist_file(B)] = "new"], out |-> "ok"]

\* the SBOM: cpc-sbom installed on demand, stdout and stderr opened "w"
gen_sbom(a, B, sbom_log, broken) ==
    IF broken = "install"
    THEN [art |-> a, out |-> "CalledProcessError"]
    ELSE IF broken = "sbom"
    THEN [art |-> [a EXCEPT ![sbom_file_name(B)] = "partial",
                            ![sbom_log_path(B, sbom_log)] = "new"],
          out |-> "SystemExit"]
    ELSE [art |-> [a EXCEPT ![sbom_file_name(B)] = "new",
                            ![sbom_log_path(B, sbom_log)] = "new"],
          out |-> "ok"]

create_manifest(a, B, generate_sbom, sbom_log, ow, bad, broken) ==
    LET pre == manifest_precheck(a, << manifest_file(B), filelist_file(B),
                                       sbom_file_name(B) >>, ow, bad)
    IN  IF pre.out # "ok" THEN pre
        ELSE LET m == gen_manifest(pre.art, B, broken)
             IN  IF m.out # "ok" THEN m
                 ELSE LET l == gen_filelist(m.art, B, broken)
                      IN  IF l.out # "ok" \/ ~generate_sbom THEN l
                          ELSE gen_sbom(l.art, B, sbom_log, broken)

\* do_chrootfs's call: generate_sbom=False, sbom_log=None, overwrite=self.overwrite
chrootfs_create_manifest ==
    /\ pc = "manifest"
    /\ \E bad \in {"none", "manifest", "filelist", "sbom.spdx"},
          broken \in GenSteps \ {"install", "sbom"} :
          LET m == create_manifest(art, output_files_name, FALSE, <<>>,
                                   overwrite, bad, broken)
          IN  /\ art' = m.art
              /\ IF m.out = "ok" THEN Goto("restore")
                 ELSE IF m.out = "SystemExit" THEN Raise("SystemExit")
                 ELSE Caught(m.out)
    /\ steps' = steps \cup {"manifest"}
    /\ UNCHANGED << jobVars, objVars, fs, dirs, imgVars >>

-----------------------------------------------------------------------------
(* main(): the except clause.                                              *)

\* sudo umount with check=True succeeds only on a mounted target
umount_ok(m, toolOk) == m > 0 /\ toolOk

main_except ==
    /\ pc = "except"
    /\ \E toolOk \in BOOLEAN, hostOk \in BOOLEAN :
          IF ~umount_ok(mounts, toolOk)
          THEN /\ pc' = "failed"
               /\ err' = "CalledProcessError"
               /\ cause' = pending
               /\ steps' = steps \cup {"recover", "recover_umount_failed"}
               /\ UNCHANGED << mounts, fs >>
          ELSE /\ mounts' = mounts - 1
               /\ steps' = steps \cup {"recover", "recover_remove"}
               /\ fs' = remove_existing_modified_image(fs, hostOk)
               /\ pc' = "failed"
               /\ IF remove_existing_raises(fs, hostOk)
                    THEN /\ err' = "OSError"
                         /\ cause' = pending
                    ELSE /\ err' = "ChimgFailed"
                         /\ cause' = pending
    /\ pending' = pending
    /\ UNCHANGED << jobVars, objVars, dirs, art, offVars, rootfs, rootfs0 >>

-----------------------------------------------------------------------------
(* create_final_image().                                                   *)

\* _restore_resolv_conf on the mounted root; rmOk, mvOk: whether rm -f and
\* mv exit with status 0
restore_resolv_conf_root(r, existed, rmOk, mvOk) ==
    IF existed /\ exists_follow(r.bak)
    THEN [root |-> IF ~rmOk THEN r
                   ELSE IF ~mvOk THEN [r EXCEPT !.resolv = "none"]
                   ELSE [r EXCEPT !.resolv = r.bak, !.bak = "none"],
          raises |-> ~rmOk \/ ~mvOk]
    ELSE [root |-> IF rmOk THEN [r EXCEPT !.resolv = "none"] ELSE r,
          raises |-> ~rmOk]

restore_resolv_conf ==
    /\ pc = "restore"
    /\ \E rmOk \in BOOLEAN, mvOk \in BOOLEAN :
          LET h == restore_resolv_conf_root(rootfs, resolv_conf_existed, rmOk, mvOk)
          IN  /\ rootfs' = h.root
              /\ IF h.raises THEN Raise("CalledProcessError")
                             ELSE Goto("unmount")
    /\ steps' = steps \cup {"restore"}
    /\ UNCHANGED << jobVars, objVars, hostVars, mounts, offVars, rootfs0 >>

unmount_image ==
    /\ pc = "unmount"
    /\ \E toolOk \in BOOLEAN :
          IF umount_ok(mounts, toolOk)
          THEN /\ mounts' = mounts - 1
               /\ Goto("produce")
          ELSE /\ mounts' = mounts
               /\ Raise("CalledProcessError")
    /\ steps' = steps \cup {"unmount"}
    /\ UNCHANGED << jobVars, objVars, hostVars, offVars, rootfs, rootfs0 >>

cleanup_working_tolerant(f, hostOk) ==
    IF can_remove(f, modified_image_file, hostOk)
    THEN [fs |-> [f EXCEPT ![modified_image_file] = Absent], raises |-> FALSE]
    ELSE [fs |-> f, raises |-> FALSE]

\* os.remove(self.modified_image_file) and the check that follows it
cleanup_working(f, hostOk) ==
    IF can_remove(f, modified_image_file, hostOk)
    THEN [fs |-> [f EXCEPT ![modified_image_file] = Absent], raises |-> FALSE]
    ELSE [fs |-> f, raises |-> TRUE]

final_entry_copied(src) == shutil_copy(src)

\* what _produce_final_image writes at the output path from the working image
final_entry(src) ==
    IF input_image_type = "qcow2" THEN qemu_convert(src, "qcow2")
    ELSE shutil_copy(src)

\* _produce_final_image on f.  rmOutOk, toolOk, rmWorkOk: whether the host
\* lets os.remove(output) succeed, the conversion or copy succeed, and
\* os.remove(working) succeed
produce_final_image_fs(f, rmOutOk, toolOk, rmWorkOk) ==
    LET outThere == path_exists(f, output_image_path)
        rmOutFails == outThere /\ ~can_remove(f, output_image_path, rmOutOk)
        f1 == IF outThere /\ ~rmOutFails
              THEN [f EXCEPT ![output_image_path] = Absent] ELSE f
        src == f1[modified_image_file]
        writeFails == ~path_isfile(f1, modified_image_file) \/ ~toolOk
        f2 == IF writeFails THEN f1
              ELSE [f1 EXCEPT ![output_image_path] = final_entry(src)]
        c == cleanup_working(f2, rmWorkOk)
    IN  IF rmOutFails THEN [fs |-> f, out |-> "OSError", events |-> {}]
        ELSE IF writeFails
        THEN [fs |-> f1,
              out |-> IF input_image_type = "qcow2"
                      THEN "CalledProcessError" ELSE "OSError",
              events |-> {}]
        ELSE [fs |-> c.fs,
              out |-> IF c.raises THEN "OSError" ELSE "ok",
              events |-> {"output_written"}
                  \cup (IF path_exists(c.fs, modified_image_file)
                        THEN {"work_remove_failed"} ELSE {})]

produce_final_image ==
    /\ pc = "produce"
    /\ \E rmOutOk \in BOOLEAN, toolOk \in BOOLEAN, rmWorkOk \in BOOLEAN :
          LET r == produce_final_image_fs(fs, rmOutOk, toolOk, rmWorkOk)
          IN  /\ fs' = r.fs
              /\ IF r.out = "ok" THEN Goto("done") ELSE Raise(r.out)
              /\ steps' = steps \cup {"finalize"} \cup r.events
    /\ UNCHANGED << jobVars, objVars, dirs, art, imgVars >>

-----------------------------------------------------------------------------

Next ==
    \/ customize_image_entry_point
    \/ ImageCustomizer_init
    \/ ensure_paths
    \/ setup_remove_existing
    \/ validate_input_image_exists
    \/ convert_or_copy_image
    \/ get_partition_offset
    \/ mount_image
    \/ handle_resolv_conf
    \/ do_chrootfs
    \/ chrootfs_create_manifest
    \/ main_except
    \/ restore_resolv_conf
    \/ unmount_image
    \/ produce_final_image

Spec == Init /\ [][Next]_vars

-----------------------------------------------------------------------------
(* create_manifest called on its own, up to MaxCalls times in a row on the  *)
(* same base path and an unchanged mount root.                             *)

MaxCalls == 2

ManifestBase == with_suffix([dir |-> "", stem |-> "b", ext |-> "img"], "")

SbomLogArgs == {<<>>, << EmptyStr >>, << sbom_log_default(ManifestBase) >>}

ManifestFiles(B) ==
    {manifest_file(B), filelist_file(B), sbom_file_name(B),
     sbom_log_default(B), StrNone}

InitManifest ==
    /\ pc = "create_manifest"
    /\ \E gs \in BOOLEAN, sl \in SbomLogArgs, ow \in BOOLEAN :
          cm = [NoCall EXCEPT !.base = ManifestBase, !.generate_sbom = gs,
                              !.sbom_log = sl, !.overwrite = ow]
    /\ \E old \in SUBSET ManifestFiles(ManifestBase) :
          art = [a \in ArtPaths |-> IF a \in old THEN "old" ELSE "absent"]
    /\ art0 = art
    /\ viaCli = FALSE
    /\ overwrite = cm.overwrite
    /\ cfgExists = TRUE
    /\ input_image_file = NoPath
    /\ output_image_path = NoPath
    /\ modified_image_file = NoPath
    /\ output_files_name = cm.base
    /\ input_image_type = ""
    /\ resolv_conf_existed = FALSE
    /\ fs = [p \in FsPaths |-> Absent]
    /\ fs0 = fs
    /\ dirs = {MountPoint}
    /\ dirs0 = dirs
    /\ mounts = 1
    /\ offset = 0
    /\ rootfs = NoRoot
    /\ rootfs0 = NoRoot
    /\ pending = "none"
    /\ err = "none"
    /\ cause = "none"
    /\ steps = {}
    /\ disk = NoDisk

create_manifest_call ==
    /\ pc = "create_manifest"
    /\ cm.calls < MaxCalls
    /\ \E bad \in {"none", "manifest", "filelist", "sbom.spdx"},
          broken \in GenSteps :
          LET m == create_manifest(art, cm.base, cm.generate_sbom, cm.sbom_log,
                                   cm.overwrite, bad, broken)
          IN  /\ art' = m.art
              /\ err' = IF m.out = "ok" THEN "none" ELSE m.out
              /\ cm' = [cm EXCEPT !.calls = @ + 1,
                                  !.clean = @ /\ bad = "none" /\ broken = "none",
                                  !.out = m.out,
                                  !.prev = art]
    /\ UNCHANGED << pc, viaCli, input_image_file, output_image_path, overwrite,
                    cfgExists, fs0, dirs0, art0, objVars, fs, dirs, imgVars,
                    pending, cause, steps >>

NextManifest == create_manifest_call

SpecManifest == InitManifest /\ [][NextManifest]_vars

-----------------------------------------------------------------------------
(* The partition offset lookup on its own: setup() has staged the working  *)
(* image and reads its partition table, which may be any table of up to    *)
(* MaxParts entries; the mount follows when an offset was returned.        *)

InitOffset ==
    /\ pc = "offset"
    /\ viaCli \in BOOLEAN
    /\ overwrite \in BOOLEAN
    /\ cfgExists = TRUE
    /\ input_image_file = [dir |-> "", stem |-> "a", ext |-> "img"]
    /\ output_image_path = [dir |-> "", stem |-> "b", ext |-> "img"]
    /\ modified_image_file = with_suffix(input_image_file, "modifying")
    /\ output_files_name = with_suffix(output_image_path, "")
    /\ \E f \in Formats :
          /\ input_image_type = f
          /\ fs0 = InitFs(input_image_file, File(f, "orig"), {})
          /\ fs = [fs0 EXCEPT ![modified_image_file] = File("raw", "orig")]
    /\ resolv_conf_existed = FALSE
    /\ dirs = {MountPoint}
    /\ dirs0 \in SUBSET {MountPoint}
    /\ art = InitArt(output_files_name, {})
    /\ art0 = art
    /\ mounts = 0
    /\ offset = 0
    /\ rootfs = NoRoot
    /\ rootfs0 = NoRoot
    /\ pending = "none"
    /\ err = "none"
    /\ cause = "none"
    /\ steps = {"init", "stage"}
    /\ cm = NoCall
    /\ disk = NoDisk

get_partition_offset_any == get_partition_offset_on(Disks(MaxParts))

NextOffset == get_partition_offset_any \/ mount_image

SpecOffset == InitOffset /\ [][NextOffset]_vars

-----------------------------------------------------------------------------
(* Properties.                                                             *)

Terminal == pc \in {"done", "failed"}

\* the output path holds nothing the run created
OutputNotCreated ==
    path_exists(fs, output_image_path) =>
        fs[output_image_path] = fs0[output_image_path]

\* the failure arose in do_chrootfs or create_manifest
FailedInDelegated ==
    pc = "failed" /\ "chrootfs" \in steps /\ "restore" \notin steps

(* C1: when the delegate raises during main, the run ends with the loop    *)
(* mount removed, the working image deleted, one wrapped fatal error       *)
(* carrying the delegate's error raised to the caller, and no file created *)
(* at the output path.                                                     *)
C1_DelegateFailureCleansUp ==
    (pc = "failed" /\ pending = "DelegateError") =>
        /\ mounts = 0
        /\ ~path_exists(fs, modified_image_file)
        /\ err = "ChimgFailed"
        /\ cause = "DelegateError"
        /\ OutputNotCreated

(* C2: every failure that arises in the Delegated stage (the delegate,     *)
(* do_chrootfs's own checks, the manifest pre-check, a manifest generation *)
(* step) triggers the recovery: forced unmount and removal of the working  *)
(* image, then one wrapped fatal error carrying the original cause.        *)
C2_DelegatedFailureRecovers ==
    FailedInDelegated =>
        /\ "recover" \in steps
        /\ mounts = 0
        /\ ~path_exists(fs, modified_image_file)
        /\ err = "ChimgFailed"
        /\ cause # "none"

(* C3: at most one loop mount is active in every state, and in every       *)
(* terminal state of a run (Finalized, or ended by any error or process    *)
(* exit) no loop mount is active on the target mount point.                *)
C3_MountReleasedAtEnd ==
    /\ mounts <= 1
    /\ Terminal => mounts = 0

(* C4: after every successful run the working image file no longer exists  *)
(* and the output path holds exactly one file, the image the run produced, *)
(* whatever existed at the output path or the working path before.         *)
C4_SuccessLeavesOnlyOutput ==
    pc = "done" =>
        /\ ~path_exists(fs, modified_image_file)
        /\ path_isfile(fs, output_image_path)
        /\ fs[output_image_path].data = "orig"
        /\ "output_written" \in steps

C4_Witness ==
    /\ pc = "done"
    /\ path_exists(fs0, output_image_path)
    /\ path_exists(fs0, modified_image_file)

(* C5: when a file exists at the output path and overwrite is false, the   *)
(* constructor fails with an error and nothing on the host has changed: no *)
(* directory created, no file created or removed, no mount, no artifact.   *)
C5_CollisionFailsWithoutMutation ==
    ("init" \in steps /\ path_exists(fs0, output_image_path) /\ ~overwrite) =>
        /\ pc = "failed"
        /\ err = "FileExistsError"
        /\ fs = fs0
        /\ dirs = dirs0
        /\ art = art0
        /\ mounts = 0

C5_Witness ==
    /\ "init" \in steps
    /\ path_exists(fs0, output_image_path)
    /\ ~overwrite
    /\ err = "FileExistsError"

(* C6: when the input path is not an existing regular file or the config   *)
(* file does not exist, the job ends with an error and has performed no    *)
(* side effect: no directory created, the working image file neither       *)
(* removed nor created, nothing mounted, resolv.conf not touched.          *)
C6_MissingInputsNoSideEffects ==
    (~path_isfile(fs0, input_image_file) \/ ~cfgExists) =>
        /\ Terminal => err # "none"
        /\ dirs = dirs0
        /\ fs = fs0
        /\ mounts = 0
        /\ steps \cap {"mount", "shim"} = {}

\* the image the run leaves behind, if any, holds the resolv.conf it came with
ResolvRestored ==
    /\ (lexists(rootfs0.resolv) /\ resolv_conf_existed) =>
           rootfs.resolv = rootfs0.resolv
    /\ ~lexists(rootfs0.resolv) => rootfs.resolv = "none"

(* C7: after the full lifecycle, on the success path or on the             *)
(* delegate-failure path, etc/resolv.conf of the image is back in its      *)
(* pre-run condition: restored with its content and symlink-ness when an   *)
(* entry (file, symlink, dangling symlink) existed and was backed up,      *)
(* absent when none existed.  On the failure path the statement is about   *)
(* the working image if the recovery left one.                             *)
C7_ResolvConfRestored ==
    \/ pc = "done"
    \/ pc = "failed" /\ err = "ChimgFailed"
                     /\ path_exists(fs, modified_image_file)
    => ResolvRestored

(* C8: when the mount command exits non-zero the job aborts with a mount   *)
(* error before any shim installation, delegate invocation or manifest     *)
(* generation; no manifest, file-list or SBOM artifact is created.         *)
C8_MountFailureAborts ==
    "mount_nonzero" \in steps =>
        /\ pc = "failed"
        /\ err = "MountError"
        /\ steps \cap {"shim", "chrootfs", "delegate", "manifest"} = {}
        /\ rootfs = NoRoot
        /\ art = art0

C8_Witness ==
    /\ "mount_nonzero" \in steps
    /\ err = "MountError"
    /\ \E a \in ArtPaths : art0[a] = "old"

(* C9: when the delegate fails and the recovery unmount fails too, the     *)
(* error reaching the caller is still the wrapped delegation error with    *)
(* the original cause, and removal of the working image is still tried.    *)
C9_UnmountFailureDoesNotMask ==
    "recover_umount_failed" \in steps =>
        /\ err = "ChimgFailed"
        /\ cause = pending
        /\ "recover_remove" \in steps

(* C10: when the output image was written and removing the working image   *)
(* file fails, _produce_final_image logs it and the run still reaches      *)
(* Finalized without raising.                                              *)
C10_NonRemovableWorkingTolerated ==
    "work_remove_failed" \in steps => (pc = "done" /\ err = "none")


\* the artifact paths derived from base path B
DerivedPaths(B) ==
    {manifest_file(B), filelist_file(B), sbom_file_name(B), sbom_log_default(B)}

\* the derived paths a call checks or writes: the SBOM log is one of them
\* when an SBOM is asked for and the log goes to B.sbom.log
WrittenPaths(B, gs, sl) ==
    {manifest_file(B), filelist_file(B), sbom_file_name(B)}
        \cup (IF gs /\ sbom_log_path(B, sl) = sbom_log_default(B)
              THEN {sbom_log_default(B)} ELSE {})

(* C11: with overwrite not set, create_manifest never removes, truncates   *)
(* or overwrites a file that already exists at a derived artifact path     *)
(* (manifest, file list, SBOM document, SBOM log), for either value of     *)
(* generate_sbom; a collision stops the process with a non-zero exit       *)
(* before any artifact is written.                                         *)
C11_NoSilentOverwrite ==
    (cm.calls >= 1 /\ ~cm.overwrite) =>
        /\ \A a \in DerivedPaths(cm.base) :
              art0[a] # "absent" => art[a] = art0[a]
        /\ (\E a \in WrittenPaths(cm.base, cm.generate_sbom, cm.sbom_log) :
                 art0[a] # "absent") =>
              (cm.out = "SystemExit" /\ art = art0)

(* C12: create_manifest is idempotent under overwrite=true: called again   *)
(* on the same base path and mount root, with the external generators      *)
(* succeeding, it does not raise or exit, and the manifest and the file    *)
(* list are what they were after the previous call.                        *)
C12_IdempotentUnderOverwrite ==
    (cm.calls >= 2 /\ cm.overwrite /\ cm.clean) =>
        /\ cm.out = "ok"
        /\ art[manifest_file(cm.base)] = cm.prev[manifest_file(cm.base)]
        /\ art[filelist_file(cm.base)] = cm.prev[filelist_file(cm.base)]
        /\ art[manifest_file(cm.base)] = "new"
        /\ art[filelist_file(cm.base)] = "new"

C12_Witness ==
    /\ cm.calls >= 2
    /\ cm.overwrite
    /\ cm.clean
    /\ cm.generate_sbom
    /\ art0[manifest_file(cm.base)] = "old"
    /\ art0[sbom_file_name(cm.base)] = "old"

(* C13: for base path B the artifacts are written to exactly B.manifest,   *)
(* B.filelist, B.sbom.spdx and, when sbom_log is None, the SBOM tool's     *)
(* standard error to B.sbom.log.  (The document name B.sbom is an argument *)
(* of the tool, not a file.)                                               *)
C13_ArtifactNames ==
    (cm.calls = 1 /\ cm.out = "ok") =>
        /\ art[manifest_file(cm.base)] = "new"
        /\ art[filelist_file(cm.base)] = "new"
        /\ cm.generate_sbom => art[sbom_file_name(cm.base)] = "new"
        /\ (cm.generate_sbom /\ cm.sbom_log = <<>>) =>
              art[sbom_log_default(cm.base)] = "new"
        /\ \A a \in ArtPaths \ DerivedPaths(cm.base) : art[a] = art0[a]


(* C14: every failure before the Delegated stage (any step of setup) sees  *)
(* no mount active and no shim installed, so aborting without unmount or   *)
(* shim cleanup leaves nothing mounted.                                    *)
C14_EarlyFailureLeavesNothingMounted ==
    (pc = "failed" /\ "init" \in steps /\ "chrootfs" \notin steps) =>
        /\ mounts = 0
        /\ rootfs.resolv # "host"

\* operation s is invoked by this step
Invoked(s) == s \notin steps /\ s \in steps'

(* C15: the lifecycle steps occur in the order stage, locate offset,       *)
(* mount, install shim, delegate, manifest, restore shim, unmount,         *)
(* finalize: the delegate and the manifest generator are invoked only      *)
(* while the image is mounted and the shim is installed, the shim is       *)
(* restored only while the image is mounted, and the output image is       *)
(* written only after the unmount has succeeded.                           *)
C15_LifecycleOrder ==
    [][ /\ Invoked("offset") => "stage" \in steps
        /\ Invoked("mount") => "offset" \in steps /\ mounts = 0
        /\ Invoked("shim") => "mount" \in steps /\ mounts = 1
        /\ Invoked("delegate") =>
              "shim" \in steps /\ mounts = 1 /\ rootfs.resolv = "host"
        /\ Invoked("manifest") =>
              "delegate" \in steps /\ mounts = 1 /\ rootfs.resolv = "host"
        /\ Invoked("restore") => "delegate" \in steps /\ mounts = 1
        /\ Invoked("unmount") => "restore" \in steps /\ mounts = 1
        /\ Invoked("finalize") => "unmount" \in steps /\ mounts = 0
        /\ Invoked("output_written") => mounts = 0
      ]_vars

C15_Witness ==
    /\ pc = "done"
    /\ {"stage", "offset", "mount", "shim", "delegate", "manifest", "restore",
        "unmount", "finalize", "output_written"} \subseteq steps

(* C16: whenever shim installation backed up the pre-existing resolv.conf  *)
(* entry (file, symlink or dangling symlink), shim restoration on the      *)
(* success path deletes the injected file and moves the backup back:       *)
(* afterwards no resolv.conf.bak remains and resolv.conf is the original.  *)
C16_RestoreUsesBackup ==
    (resolv_conf_existed /\ pc \in {"unmount", "produce", "done"}) =>
        /\ rootfs.resolv = rootfs0.resolv
        /\ rootfs.bak = "none"

(* C17: on every successful run the output image has the format detected   *)
(* for the input at staging: a qcow2 input is staged as a raw working copy *)
(* and converted back to qcow2, any other input is copied verbatim both    *)
(* ways; the format recorded at staging is the one used at finalization.   *)
C17_FormatPreserved ==
    /\ pc \in {"offset", "mount", "resolv", "chrootfs", "manifest", "restore",
               "unmount", "produce"} =>
          /\ input_image_type = fs0[input_image_file].fmt
          /\ fs[modified_image_file].kind = "file"
          /\ fs[modified_image_file].fmt = "raw"
          /\ fs[modified_image_file].data = fs0[input_image_file].data
    /\ pc = "done" =>
          /\ input_image_type = fs0[input_image_file].fmt
          /\ fs[output_image_path] = fs0[input_image_file]

C17_Witness ==
    /\ pc = "done"
    /\ fs0[input_image_file].fmt = "qcow2"
    /\ fs[output_image_path].fmt = "qcow2"

\* positions of the Linux filesystem entries in the partition table d
LinuxParts(d) == {i \in 1..Len(d.parts) : d.parts[i].type = "Linux filesystem"}

(* C18: _get_partition_offset returns startSector * sectorSize, with       *)
(* startSector from the first partition entry labelled Linux filesystem    *)
(* and sectorSize from the sector-size line (2048 * 512 = 1048576); when   *)
(* either is absent from the fdisk output it fails with the 'could not     *)
(* determine partition offset' error and no mount is attempted.            *)
C18_PartitionOffset ==
    "offset" \in steps =>
        IF disk.sector_size # <<>> /\ LinuxParts(disk) # {}
        THEN LET first == disk.parts[Min(LinuxParts(disk))]
             IN  /\ err \notin {"OffsetError", "IndexError", "ValueError"}
                 /\ offset = first.start * disk.sector_size[1]
                 /\ (first.start = 2048 /\ disk.sector_size[1] = 512) =>
                       offset = 1048576
        ELSE /\ pc = "failed"
             /\ err = "OffsetError"
             /\ "mount" \notin steps
             /\ mounts = 0

C18_Witness ==
    /\ "mount" \in steps
    /\ Len(disk.parts) = 2
    /\ disk.sector_size = << 512 >>
    /\ disk.parts[1] = [start |-> 2048, type |-> "Linux filesystem"]
    /\ disk.parts[2] = [start |-> 227328, type |-> "Linux filesystem"]
    /\ offset = 1048576

(* C19: the source image is never deleted or modified: for every input     *)
(* path, including one whose working path '<stem>.modifying' is the input  *)
(* path itself, and an output path different from the input path, after    *)
(* any run, successful or failed, the input file still exists with its     *)
(* original content.                                                       *)
C19_SourcePreserved ==
    (Terminal /\ output_image_path # input_image_file
              /\ path_isfile(fs0, input_image_file)) =>
        fs[input_image_file] = fs0[input_image_file]

(* C20: the working image is never discarded before the output exists:     *)
(* when _produce_final_image fails before the output is written, the       *)
(* working image file still exists as the error propagates.                *)
C20_WorkingKeptUntilOutput ==
    (pc = "failed" /\ "finalize" \in steps /\ "output_written" \notin steps) =>
        path_isfile(fs, modified_image_file)

=============================================================================
